---- MODULE Spec2Model ----
(***************************************************************************)
(* A model of the AutoFix Reducers push button                             *)
(* (BvdK.extension/BvdK.tab/Dev.panel/Beck&vd_kroef_bv_02.pushbutton):     *)
(* the connector walk of auto_fix, the flow/side classifier, the per       *)
(* fitting transaction of try_update_fitting and the reducer guard.        *)
(*                                                                         *)
(* Conventions.                                                            *)
(*  - Python's True / False / None are the strings "true" / "false" /      *)
(*    "none" wherever the three can meet in one value.                     *)
(*  - A family or pipe name is a sequence of one-character strings, so     *)
(*    that `in`, startswith and lower() are computed, not assumed.         *)
(*  - A vector is a triple of integers.  XYZ.Normalize divides by the      *)
(*    length; the classifier only compares normalized products with        *)
(*    0.7 and 0.1, which is done exactly on the squares.                   *)
(*  - A parameter of a fitting is "absent" (LookupParameter gives None),   *)
(*    "text" (StorageType is not Integer), "int0" or "int1".               *)
(***************************************************************************)
EXTENDS Integers, Sequences, FiniteSets, TLC

VARIABLES
    pipes,      \* the Pipe elements of the document: id -> record
    fits,       \* the FamilyInstance elements of the document: id -> record
    params,     \* the parameter store: fitting id -> parameter name -> value
    pc,         \* position of the running script
    pq,         \* pipes still to be looked at by the first loop
    refs,       \* connector references of the current main pipe still to visit
    main,       \* id of the current main pipe (0: none)
    main_dir,   \* its direction vector, or NoneV
    branch_pipe, \* what get_branch_pipe returned last (0: None)
    fq,         \* fittings still to be looked at by the second loop
    visited,    \* auto_fix's visited set (integer ids)
    updated,    \* auto_fix's counter
    skipped,    \* auto_fix's counter
    cur,        \* fitting of the running try_update_fitting call (0: none)
    plan,       \* its param_map, as a sequence of <<name, value>>
    flip,       \* its flip argument
    k,          \* index of the next assignment of plan
    ret,        \* where the caller continues
    res,        \* result of the last try_update_fitting call
    txOpen,     \* a Transaction is started and neither committed nor rolled back
    snap,       \* the parameter store when the open Transaction started
    tg,         \* the TransactionGroup: "none", "open", "assimilated"
    shown,      \* the message boxes shown, each <<updated, skipped>>
    faults,     \* faults raised by the host so far
    hist,       \* history: what was done to which fitting, per pass
    pre,        \* history: the parameter store before the run
    cv, cw, cres, \* the classifier taken alone: its two arguments and its result
    sheets,     \* copy_sheets: sheet numbers of the source sheets still to copy
    target_doc, \* sheet numbers the target document's ViewSheets had before the call
    existing_sheet_numbers, \* copy_sheets' set of numbers that are taken
    new_sheet_number,  \* copy_sheets' candidate number for the current sheet
    orig_sheet_number, \* the current sheet's own number
    count,      \* copy_sheets' rename counter
    copied_sheet_count, \* copy_sheets' counter of created sheets
    assigned,   \* history: the sheets created, each [src, num, free]
    rnd         \* the host's double arithmetic: whether a product of two normalized
                \* vectors that lies on a threshold is computed as beyond it

vars == <<rnd, pipes, fits, params, pc, pq, refs, main, main_dir, branch_pipe, fq, visited,
          updated, skipped, cur, plan, flip, k, ret, res, txOpen, snap, tg,
          shown, faults, hist, pre, cv, cw, cres, sheets, target_doc,
          existing_sheet_numbers, new_sheet_number, orig_sheet_number, count,
          copied_sheet_count, assigned>>

(***************************************************************************)
(* Bounds of the model.                                                    *)
(***************************************************************************)
MaxFaults == 1      \* faults the host may raise in one behaviour
MaxCoord == 2       \* the classifier alone: coordinates range over -MaxCoord..MaxCoord

(***************************************************************************)
(* Strings.                                                                *)
(***************************************************************************)
UpperCase == <<"A","B","C","D","E","F","G","H","I","J","K","L","M",
               "N","O","P","Q","R","S","T","U","V","W","X","Y","Z">>
LowerCase == <<"a","b","c","d","e","f","g","h","i","j","k","l","m",
               "n","o","p","q","r","s","t","u","v","w","x","y","z">>

LowerChar(c) ==
    IF \E i \in 1..Len(UpperCase) : UpperCase[i] = c
    THEN LowerCase[CHOOSE i \in 1..Len(UpperCase) : UpperCase[i] = c]
    ELSE c

\* str.lower()
Lower(s) == [i \in 1..Len(s) |-> LowerChar(s[i])]

\* str.startswith(p)
StartsWith(s, p) == Len(p) <= Len(s) /\ SubSeq(s, 1, Len(p)) = p

\* p in s
Contains(s, p) ==
    \E i \in 1..(Len(s) - Len(p) + 1) : SubSeq(s, i, i + Len(p) - 1) = p

\* The literals of the script.
MainPipeName == <<"N","L","R","S","_","5","2","_","P","I","_","P","E"," ","b","u","i","s">>
TeePrefix == <<"N","L","R","S","_","5","2","_","P","I","F","_","U","N","_","P","E"," ","m","u","l","t","i"," ","T","-","s","t","u","k">>
ElbowWord == <<"m","u","l","t","i","b","o","c","h","t">>
ReducerWord == <<"m","u","l","t","i","r","e","d","u","c","e","r">>
MinMainDiameter == 160

\* Names the document may hold, by a short key.
PipeNameOf ==
    [pe  |-> <<"N","L","R","S","_","5","2","_","P","I","_","P","E"," ","b","u","i","s"," ","(","O","D",")","_","g","e","b">>,
     pvc |-> <<"N","L","R","S","_","5","2","_","P","I","_","P","V","C"," ","b","u","i","s","_","g","e","b">>]

FamilyNameOf ==
    [tee        |-> <<"N","L","R","S","_","5","2","_","P","I","F","_","U","N","_","P","E"," ","m","u","l","t","i"," ","T","-","s","t","u","k","_","g","e","b">>,
     elbow      |-> <<"N","L","R","S","_","5","2","_","P","I","D","_","U","N","_","P","E"," ","m","u","l","t","i","b","o","c","h","t","_","g","e","b">>,
     elbowUC    |-> <<"N","L","R","S","_","5","2","_","P","I","D","_","U","N","_","P","E"," ","M","u","l","t","i","b","o","c","h","t","_","g","e","b">>,
     reducer    |-> <<"N","L","R","S","_","5","2","_","P","I","F","_","U","N","_","P","E"," ","m","u","l","t","i","r","e","d","u","c","e","r","_","g","e","b">>,
     teeReducer |-> <<"N","L","R","S","_","5","2","_","P","I","F","_","U","N","_","P","E"," ","m","u","l","t","i"," ","T","-","s","t","u","k"," ","m","u","l","t","i","r","e","d","u","c","e","r">>,
     other      |-> <<"N","L","R","S","_","5","2","_","P","I","F","_","U","N","_","P","E"," ","e","i","n","d","k","a","p","_","g","e","b">>,
     empty      |-> << >>]

FamilyKeys == DOMAIN FamilyNameOf

(***************************************************************************)
(* Vectors and the classifier.                                             *)
(***************************************************************************)
NoneV == <<"none">>

Dot(a, b) == a[1] * b[1] + a[2] * b[2] + a[3] * b[3]
CrossZ(a, b) == a[1] * b[2] - a[2] * b[1]
Len2(a) == Dot(a, a)
Sub(a, b) == <<a[1] - b[1], a[2] - b[2], a[3] - b[3]>>

\* The product x of the two normalized vectors lies on the threshold n/10 or
\* on -n/10.
OnThreshold(x, a, b, n) == x # 0 /\ 100 * x * x = n * n * Len2(a) * Len2(b)

\* What the host's doubles can make of a product on a threshold: for the dot
\* product and for the cross product's Z, computed as beyond it or not.
\* Normalize, DotProduct and CrossProduct negate exactly, so one answer
\* holds for a pair of vectors and for the pairs with a vector negated or the
\* two exchanged.
Roundings == [dot : BOOLEAN, cross : BOOLEAN]
ExactRounding == [dot |-> FALSE, cross |-> FALSE]

\* x / (|a| |b|) > n/10 and x / (|a| |b|) < -n/10 in doubles, for the products
\* x of the two normalized vectors: off the threshold the comparison is that
\* of the exact values (integer vectors this small are never closer to a
\* threshold than the doubles resolve), on it the rounding decides.
\* Normalize of a zero vector is the zero vector.
NormGreater(x, a, b, n, beyond) ==
    /\ x > 0
    /\ \/ 100 * x * x > n * n * Len2(a) * Len2(b)
       \/ OnThreshold(x, a, b, n) /\ beyond
NormLess(x, a, b, n, beyond) ==
    /\ x < 0
    /\ \/ 100 * x * x > n * n * Len2(a) * Len2(b)
       \/ OnThreshold(x, a, b, n) /\ beyond

\* FlowDir with "against" only below -0.9.
FlowDir_StricterAgainst(a, b) ==
    IF NormGreater(Dot(a, b), a, b, 7, rnd.dot) THEN "with"
    ELSE IF NormLess(Dot(a, b), a, b, 9, rnd.dot) THEN "against"
    ELSE "ambiguous"

FlowDir(a, b) ==
    IF NormGreater(Dot(a, b), a, b, 7, rnd.dot) THEN "with"
    ELSE IF NormLess(Dot(a, b), a, b, 7, rnd.dot) THEN "against"
    ELSE "ambiguous"

\* Side with no band around zero: any cross_z above 0 is "right", below "left".
Side_NoDeadBand(a, b) ==
    IF NormGreater(CrossZ(a, b), a, b, 0, rnd.cross) THEN "right"
    ELSE IF NormLess(CrossZ(a, b), a, b, 0, rnd.cross) THEN "left"
    ELSE "ambiguous"

Side(a, b) ==
    IF NormGreater(CrossZ(a, b), a, b, 1, rnd.cross) THEN "right"
    ELSE IF NormLess(CrossZ(a, b), a, b, 1, rnd.cross) THEN "left"
    ELSE "ambiguous"

\* SwitchTable with the two "left" rows exchanged.
SwitchTable_LeftRowsSwapped(side, flow) ==
    IF side = "left" /\ flow = "with" THEN "true"
    ELSE IF side = "left" /\ flow = "against" THEN "false"
    ELSE IF side = "right" /\ flow = "with" THEN "true"
    ELSE IF side = "right" /\ flow = "against" THEN "false"
    ELSE "none"

\* SwitchTable with True in the last row as well.
SwitchTable_RightAgainstTrue(side, flow) ==
    IF side = "left" /\ flow = "with" THEN "false"
    ELSE IF side = "left" /\ flow = "against" THEN "true"
    ELSE IF side = "right" /\ flow = "with" THEN "true"
    ELSE IF side = "right" /\ flow = "against" THEN "true"
    ELSE "none"

SwitchTable(side, flow) ==
    IF side = "left" /\ flow = "with" THEN "false"
    ELSE IF side = "left" /\ flow = "against" THEN "true"
    ELSE IF side = "right" /\ flow = "with" THEN "true"
    ELSE IF side = "right" /\ flow = "against" THEN "false"
    ELSE "none"

determine_switch_excentriciteit(dir_main, dir_branch) ==
    IF dir_main = NoneV \/ dir_branch = NoneV THEN "none"
    ELSE IF FlowDir(dir_main, dir_branch) = "ambiguous" THEN "none"
    ELSE IF Side(dir_main, dir_branch) = "ambiguous" THEN "none"
    ELSE SwitchTable(Side(dir_main, dir_branch), FlowDir(dir_main, dir_branch))

(***************************************************************************)
(* The document: elements, connectors, references.                         *)
(*                                                                         *)
(* A pipe is [name, diam, curve]: a key of PipeNameOf, the diameter in     *)
(* millimetres (Pipe.Diameter * 304.8) and the end points of its location  *)
(* curve, or NoCurve.  Its two connectors reference the fittings attached  *)
(* to it; junk lists further references of its second connector.          *)
(* A fitting is [family, live, mep, conns]: a key of FamilyNameOf, what    *)
(* its liveness checks find, whether enumerating its connectors works      *)
(* ("ok") or raises ("fault"), and its connectors, each the sequence of    *)
(* its AllRefs.  A reference is the id of its Owner, or NoOwner.           *)
(***************************************************************************)
PipeIds == {1, 2}
FittingIds == {11, 12}
NoOwner == 0            \* a reference whose Owner is None
StaleId == 99           \* the id of an element that is no longer in the document
NoCurve == <<"nocurve">>
Origin == <<0, 0, 0>>

LiveStates == {"ok", "invalid", "nosymbol", "badsymbol", "nofamily", "badfamily"}

RECURSIVE Flatten(_)
Flatten(ss) == IF ss = << >> THEN << >> ELSE Head(ss) \o Flatten(Tail(ss))

RECURSIVE SeqOfSet(_)
\* The elements of a set of integers, ascending: the order of a collector.
SeqOfSet(S) ==
    IF S = {} THEN << >>
    ELSE LET m == CHOOSE x \in S : \A y \in S : x <= y
         IN  <<m>> \o SeqOfSet(S \ {m})

\* The references of fitting f's connectors that lead to element e, as
\* <<connector index, position>> pairs in connector order.
RefsTo(f, e) ==
    SelectSeq(Flatten([c \in 1..Len(fits[f].conns) |->
                          [j \in 1..Len(fits[f].conns[c]) |-> <<c, fits[f].conns[c][j]>>]]),
              LAMBDA x : x[2] = e)

\* Connector end (1 or 2) of pipe p: the references back from the fittings
\* attached there.  A fitting's odd connectors meet a pipe's first end, its
\* even connectors the second.
PipeEnd(p, e) ==
    Flatten([i \in 1..Len(SeqOfSet(FittingIds)) |->
        LET f == SeqOfSet(FittingIds)[i]
        IN  [j \in 1..Len(SelectSeq(RefsTo(f, p), LAMBDA x : x[1] % 2 = e % 2)) |-> f]])

\* pipe.ConnectorManager.Connectors with each connector's AllRefs
PipeConnectors(p) == <<PipeEnd(p, 1), PipeEnd(p, 2) \o pipes[p].junk>>

\* doc.GetElement(id) is None
IsMissing(id) == id \notin PipeIds \cup FittingIds

IsPipe(id) == id \in PipeIds
IsFamilyInstance(id) == id \in FittingIds

(***************************************************************************)
(* Helpers of the script.                                                  *)
(***************************************************************************)
\* is_pipe_of_type with > in place of >=.
is_pipe_of_type_StrictlyAbove(p, name, min_diam_mm) ==
    Contains(PipeNameOf[pipes[p].name], name) /\ pipes[p].diam > min_diam_mm

is_pipe_of_type(p, name, min_diam_mm) ==
    Contains(PipeNameOf[pipes[p].name], name) /\ pipes[p].diam >= min_diam_mm

\* pipe is a pipe id, or 0 for None
get_direction_vector(pipe) ==
    IF pipe = 0 THEN NoneV
    ELSE IF pipes[pipe].curve = NoCurve THEN NoneV
    ELSE Sub(pipes[pipe].curve[2], pipes[pipe].curve[1])

\* get_branch_pipe without `other.Id != main_pipe_id`.
get_branch_pipe_AnyPipe(fitting, main_pipe_id) ==
    LET rs == SelectSeq(Flatten(fits[fitting].conns), LAMBDA o : IsPipe(o))
    IN  IF fits[fitting].mep = "fault" THEN 0
        ELSE IF rs = << >> THEN 0
        ELSE Head(rs)

\* The first reference, in connector then reference order, whose owner is a
\* Pipe other than main_pipe_id; 0 for None.
get_branch_pipe(fitting, main_pipe_id) ==
    LET rs == SelectSeq(Flatten(fits[fitting].conns),
                        LAMBDA o : IsPipe(o) /\ o # main_pipe_id)
    IN  IF fits[fitting].mep = "fault" THEN 0
        ELSE IF rs = << >> THEN 0
        ELSE Head(rs)

\* is_reducer_fully_connected with `return True` in the except clause.
is_reducer_fully_connected_FailsClosed(fitting) ==
    LET all == Flatten(fits[fitting].conns)
        connected == SelectSeq(all, LAMBDA o : o # fitting)
    IN  IF fits[fitting].mep = "fault" THEN TRUE
        ELSE IF \E i \in 1..Len(all) : all[i] = NoOwner THEN TRUE
        ELSE Len(connected) >= 2

\* len(connected) >= 2, and False when reading an Owner's Id raises
is_reducer_fully_connected(fitting) ==
    LET all == Flatten(fits[fitting].conns)
        connected == SelectSeq(all, LAMBDA o : o # fitting)
    IN  IF fits[fitting].mep = "fault" THEN FALSE
        ELSE IF \E i \in 1..Len(all) : all[i] = NoOwner THEN FALSE
        ELSE Len(connected) >= 2

\* What the liveness checks and the name test of the first loop decide.
IsLive(f) == fits[f].live = "ok"

IsTee(f) ==
    /\ FamilyNameOf[fits[f].family] # << >>
    /\ StartsWith(FamilyNameOf[fits[f].family], TeePrefix)

\* IsElbow without lower().
IsElbow_CaseSensitive(f) == Contains(FamilyNameOf[fits[f].family], ElbowWord)

IsElbow(f) == Contains(Lower(FamilyNameOf[fits[f].family]), ElbowWord)
IsReducer(f) == Contains(Lower(FamilyNameOf[fits[f].family]), ReducerWord)

(***************************************************************************)
(* Parameters and plans.                                                   *)
(***************************************************************************)
KK == "kort_verloop (kleinste)"
KG == "kort_verloop (grootste)"
RE == "reducer_eccentric"
SW == "switch_excentriciteit"
BV == "bend_visible"
BVP == "bend_visible_preserve"
E45 == "2x45°"
BI == "buis_invogen"
ParamNames == {KK, KG, RE, SW, BV, BVP, E45, BI}
PVals == {"absent", "text", "int0", "int1"}

\* TeePlan with the switch value inverted.
TeePlan_SwitchInverted(switch_ex) ==
    << <<KK, "true">>, <<KG, "true">>, <<RE, "true">>,
       <<SW, IF switch_ex = "true" THEN "false" ELSE "true">>,
       <<BV, "true">>, <<BVP, "true">> >>

TeePlan(switch_ex) ==
    << <<KK, "true">>, <<KG, "true">>, <<RE, "true">>, <<SW, switch_ex>>,
       <<BV, "true">>, <<BVP, "true">> >>
ElbowPlan == << <<E45, "false">>, <<BI, "false">> >>
ReducerPlan ==
    << <<KK, "false">>, <<KG, "false">>, <<SW, "false">>, <<RE, "false">> >>

\* p and p.StorageType == StorageType.Integer
IsYesNo(v) == v \in {"int0", "int1"}

\* set_yesno_param without the StorageType test.
set_yesno_param_AnyStorage(ps, name, on) ==
    IF ps[name] # "absent"
    THEN [ps EXCEPT ![name] = IF on = "true" THEN "int1" ELSE "int0"]
    ELSE ps

\* set_yesno_param toggling the stored value instead of setting it.
set_yesno_param_Toggle(ps, name, on) ==
    IF IsYesNo(ps[name])
    THEN [ps EXCEPT ![name] = IF @ = "int1" THEN "int0" ELSE "int1"]
    ELSE ps

\* The parameters of one element after set_yesno_param(elem, name, on), when
\* p.Set does not raise: 1 if on else 0, and None is falsy.
set_yesno_param(ps, name, on) ==
    IF IsYesNo(ps[name])
    THEN [ps EXCEPT ![name] = IF on = "true" THEN "int1" ELSE "int0"]
    ELSE ps

(***************************************************************************)
(* History: units started, committed, rolled back and counted per          *)
(* <<pass, fitting>>, reducers turned away by the guard, FlipHand calls    *)
(* per fitting, and (mid) the parameter store when the second loop began.  *)
(***************************************************************************)
Passes == {1, 2}
HistZero ==
    [started   |-> [x \in Passes \X FittingIds |-> 0],
     committed |-> [x \in Passes \X FittingIds |-> 0],
     rolled    |-> [x \in Passes \X FittingIds |-> 0],
     counted   |-> [x \in Passes \X FittingIds |-> 0],
     guarded   |-> [f \in FittingIds |-> 0],
     flipped   |-> [f \in FittingIds |-> 0],
     mid       |-> [f \in FittingIds |-> [n \in {} |-> "absent"]]]

Aborted == pc \in {"aborted_begin", "aborted_ref", "aborted_unit"}

\* The pass the running try_update_fitting call belongs to.
Pass == IF ret = "p1_ref" THEN 1 ELSE 2

Bump(field) == [hist EXCEPT ![field][<<Pass, cur>>] = @ + 1]

CanFault == faults < MaxFaults

(***************************************************************************)
(* try_update_fitting(fitting, param_map, flip), one step at a time.       *)
(* The caller has set cur, plan, flip and ret and moved to "tx_start".     *)
(***************************************************************************)
\* The third parameter with a flip requested by default.
DefaultFlip_True == TRUE

\* try_update_fitting(fitting, param_map, flip=False): the value of flip when
\* the caller gives none, as every caller in the script does.
DefaultFlip == FALSE

docVars == <<pipes, fits, pre, rnd>>
loopVars == <<pq, refs, main, main_dir, branch_pipe, fq, visited>>
callVars == <<cur, plan, flip, ret>>
classVars == <<cv, cw, cres>>
sheetVars == <<sheets, target_doc, existing_sheet_numbers, new_sheet_number,
               orig_sheet_number, count, copied_sheet_count, assigned>>

\* t = Transaction(doc, ...); t.Start().  Start is outside the try: when it
\* raises, the exception leaves try_update_fitting and auto_fix.
TxStart ==
    /\ pc = "tx_start"
    /\ \/ /\ txOpen' = TRUE
          /\ snap' = params
          /\ k' = 1
          /\ pc' = IF plan = << >> THEN "tx_commit" ELSE "tx_set"
          /\ hist' = Bump("started")
          /\ UNCHANGED faults
       \/ /\ CanFault
          /\ faults' = faults + 1
          /\ pc' = "aborted_unit"
          /\ hist' = Bump("started")
          /\ UNCHANGED <<txOpen, snap, k>>
    /\ UNCHANGED <<docVars, sheetVars, loopVars, callVars, classVars, params, updated,
                   skipped, res, tg, shown>>

\* One turn of `for name in param_map: set_yesno_param(fitting, name, ...)`.
\* p.Set raising is swallowed by set_yesno_param; LookupParameter or
\* StorageType raising reaches the except of try_update_fitting.
TxSet ==
    /\ pc = "tx_set"
    /\ k <= Len(plan)
    /\ \/ /\ params' = [params EXCEPT
                          ![cur] = set_yesno_param(@, plan[k][1], plan[k][2])]
          /\ k' = k + 1
          /\ pc' = IF k = Len(plan) THEN "tx_commit" ELSE "tx_set"
          /\ UNCHANGED faults
       \/ /\ CanFault
          /\ IsYesNo(params[cur][plan[k][1]])
          /\ faults' = faults + 1
          /\ k' = k + 1
          /\ pc' = IF k = Len(plan) THEN "tx_commit" ELSE "tx_set"
          /\ UNCHANGED params
       \/ /\ CanFault
          /\ faults' = faults + 1
          /\ pc' = "tx_rollback"
          /\ UNCHANGED <<params, k>>
    /\ UNCHANGED <<docVars, sheetVars, loopVars, callVars, classVars, updated, skipped,
                   res, txOpen, snap, tg, shown, hist>>

\* TxCommit returning True without t.Commit().
TxCommit_ReturnsBeforeCommit ==
    /\ pc = "tx_commit"
    /\ res' = TRUE
    /\ pc' = "tx_ret"
    /\ UNCHANGED <<docVars, sheetVars, loopVars, callVars, classVars, params, updated,
                   skipped, k, snap, tg, shown, txOpen, hist, faults>>

\* `if flip and hasattr(fitting, "CanFlipHand") and fitting.CanFlipHand:
\* fitting.FlipHand()`, then t.Commit(); return True.  Whether the fitting
\* can be flipped is the host's answer.  FlipHand is called before Commit:
\* the call is counted whether Commit returns or raises, and also when it is
\* FlipHand itself that raises.
TxCommit ==
    /\ pc = "tx_commit"
    /\ \E canFlipHand \in (IF flip THEN BOOLEAN ELSE {FALSE}) :
          LET called == flip /\ canFlipHand
              counted == [hist EXCEPT !.flipped[cur] = IF called THEN @ + 1 ELSE @]
          IN  \/ /\ txOpen' = FALSE
                 /\ res' = TRUE
                 /\ pc' = "tx_ret"
                 /\ hist' = [counted EXCEPT !.committed[<<Pass, cur>>] = @ + 1]
                 /\ UNCHANGED faults
              \/ /\ CanFault
                 /\ faults' = faults + 1
                 /\ pc' = "tx_rollback"
                 /\ hist' = counted
                 /\ UNCHANGED <<txOpen, res>>
    /\ UNCHANGED <<docVars, sheetVars, loopVars, callVars, classVars, params, updated,
                   skipped, k, snap, tg, shown>>

\* TxRollBack undoing everything since the run began, not the one unit.
TxRollBack_ToRunStart ==
    /\ pc = "tx_rollback"
    /\ \/ /\ params' = pre
          /\ txOpen' = FALSE
          /\ res' = FALSE
          /\ pc' = "tx_ret"
          /\ hist' = Bump("rolled")
          /\ UNCHANGED faults
       \/ /\ CanFault
          /\ faults' = faults + 1
          /\ pc' = "aborted_unit"
          /\ UNCHANGED <<params, txOpen, res, hist>>
    /\ UNCHANGED <<docVars, sheetVars, loopVars, callVars, classVars, updated, skipped,
                   k, snap, tg, shown>>

\* except: t.RollBack(); return False.  RollBack raising leaves the handler.
TxRollBack ==
    /\ pc = "tx_rollback"
    /\ \/ /\ params' = snap
          /\ txOpen' = FALSE
          /\ res' = FALSE
          /\ pc' = "tx_ret"
          /\ hist' = Bump("rolled")
          /\ UNCHANGED faults
       \/ /\ CanFault
          /\ faults' = faults + 1
          /\ pc' = "aborted_unit"
          /\ UNCHANGED <<params, txOpen, res, hist>>
    /\ UNCHANGED <<docVars, sheetVars, loopVars, callVars, classVars, updated, skipped,
                   k, snap, tg, shown>>

\* AfterUpdate counting every call as updated.
AfterUpdate_AlwaysUpdated ==
    /\ pc = "tx_ret"
    /\ updated' = updated + 1
    /\ skipped' = skipped
    /\ pc' = ret
    /\ hist' = Bump("counted")
    /\ UNCHANGED <<docVars, sheetVars, loopVars, classVars, params, cur, plan, flip, k,
                   ret, res, txOpen, snap, tg, shown, faults>>

\* if try_update_fitting(...): updated += 1  else: skipped += 1
AfterUpdate ==
    /\ pc = "tx_ret"
    /\ updated' = IF res THEN updated + 1 ELSE updated
    /\ skipped' = IF res THEN skipped ELSE skipped + 1
    /\ pc' = ret
    /\ hist' = Bump("counted")
    /\ UNCHANGED <<docVars, sheetVars, loopVars, classVars, params, cur, plan, flip, k,
                   ret, res, txOpen, snap, tg, shown, faults>>

(***************************************************************************)
(* auto_fix.                                                               *)
(***************************************************************************)
txVars == <<cur, plan, flip, k, ret, res, txOpen, snap>>

\* Begin with the counters kept from an earlier run.
Begin_KeepsCounters ==
    /\ pc = "init"
    /\ \/ /\ pq' = SeqOfSet(PipeIds)
          /\ tg' = "open"
          /\ pc' = "p1"
          /\ UNCHANGED faults
       \/ /\ CanFault
          /\ faults' = faults + 1
          /\ pc' = "aborted_begin"
          /\ UNCHANGED <<pq, tg>>
    /\ visited' = {}
    /\ UNCHANGED <<docVars, sheetVars, classVars, txVars, params, refs, main, main_dir,
                   branch_pipe, fq, shown, hist, updated, skipped>>

\* The two collectors, the counters, tg.Start().  A collector raising ends
\* the run before anything is done.
Begin ==
    /\ pc = "init"
    /\ \/ /\ pq' = SeqOfSet(PipeIds)
          /\ tg' = "open"
          /\ pc' = "p1"
          /\ UNCHANGED faults
       \/ /\ CanFault
          /\ faults' = faults + 1
          /\ pc' = "aborted_begin"
          /\ UNCHANGED <<pq, tg>>
    /\ visited' = {}
    /\ updated' = 0
    /\ skipped' = 0
    /\ UNCHANGED <<docVars, sheetVars, classVars, txVars, params, refs, main, main_dir,
                   branch_pipe, fq, shown, hist>>

\* Pass1Pipe with `break` in place of `continue` for a pipe that is no main.
Pass1Pipe_BreakOnOtherPipe ==
    /\ pc = "p1"
    /\ IF pq = << >> \/ ~is_pipe_of_type(Head(pq), MainPipeName, MinMainDiameter)
       THEN /\ pc' = "p2"
            /\ fq' = SeqOfSet(FittingIds)
            /\ hist' = [hist EXCEPT !.mid = params]
            /\ UNCHANGED <<pq, refs, main, main_dir>>
       ELSE /\ pq' = Tail(pq)
            /\ main' = Head(pq)
            /\ main_dir' = get_direction_vector(Head(pq))
            /\ refs' = Flatten(PipeConnectors(Head(pq)))
            /\ pc' = "p1_ref"
            /\ UNCHANGED <<fq, hist>>
    /\ UNCHANGED <<docVars, sheetVars, classVars, txVars, params, branch_pipe, visited,
                   updated, skipped, tg, shown, faults>>

\* for pipe in pipes: the type test and main_dir.
Pass1Pipe ==
    /\ pc = "p1"
    /\ IF pq = << >>
       THEN /\ pc' = "p2"
            /\ fq' = SeqOfSet(FittingIds)
            /\ hist' = [hist EXCEPT !.mid = params]
            /\ UNCHANGED <<pq, refs, main, main_dir>>
       ELSE /\ pq' = Tail(pq)
            /\ UNCHANGED <<fq, hist>>
            /\ IF is_pipe_of_type(Head(pq), MainPipeName, MinMainDiameter)
               THEN /\ main' = Head(pq)
                    /\ main_dir' = get_direction_vector(Head(pq))
                    /\ refs' = Flatten(PipeConnectors(Head(pq)))
                    /\ pc' = "p1_ref"
               ELSE UNCHANGED <<main, main_dir, refs, pc>>
    /\ UNCHANGED <<docVars, sheetVars, classVars, txVars, params, branch_pipe, visited,
                   updated, skipped, tg, shown, faults>>

\* ReachesTee without the visited test.
ReachesTee_NoVisited(o) ==
    /\ o # NoOwner
    /\ ~IsMissing(o)
    /\ IsFamilyInstance(o)
    /\ IsLive(o)
    /\ IsTee(o)

\* ReachesTee without the test of the family name.
ReachesTee_AnyFamily(o) ==
    /\ o # NoOwner
    /\ o \notin visited
    /\ ~IsMissing(o)
    /\ IsFamilyInstance(o)
    /\ IsLive(o)

\* The fitting of one reference of the first loop is updated: the guards of
\* lines 193..211 all let it pass.
ReachesTee(o) ==
    /\ o # NoOwner
    /\ o \notin visited
    /\ ~IsMissing(o)
    /\ IsFamilyInstance(o)
    /\ IsLive(o)
    /\ IsTee(o)

\* One turn of `for conn in ...: for ref in conn.AllRefs:`.
Pass1Ref ==
    /\ pc = "p1_ref"
    /\ IF refs = << >>
       THEN /\ pc' = "p1"
            /\ UNCHANGED <<refs, visited, branch_pipe, cur, plan, flip, ret>>
       ELSE /\ refs' = Tail(refs)
            /\ IF Head(refs) = NoOwner
               THEN /\ pc' = "aborted_ref"
                    /\ UNCHANGED <<visited, branch_pipe, cur, plan, flip, ret>>
               ELSE /\ visited' = visited \cup {Head(refs)}
                    /\ IF ReachesTee(Head(refs))
                       THEN /\ cur' = Head(refs)
                            /\ branch_pipe' = get_branch_pipe(Head(refs), main)
                            /\ plan' = TeePlan(determine_switch_excentriciteit(
                                           main_dir,
                                           get_direction_vector(branch_pipe')))
                            /\ flip' = DefaultFlip
                            /\ ret' = "p1_ref"
                            /\ pc' = "tx_start"
                       ELSE UNCHANGED <<pc, branch_pipe, cur, plan, flip, ret>>
    /\ UNCHANGED <<docVars, sheetVars, classVars, params, pq, main, main_dir, fq, updated,
                   skipped, k, res, txOpen, snap, tg, shown, faults, hist>>

\* One turn of `for f in fittings:`.
Pass2Fitting ==
    /\ pc = "p2"
    /\ IF fq = << >>
       THEN /\ pc' = "finish"
            /\ UNCHANGED <<fq, cur, plan, flip, ret, skipped, hist>>
       ELSE /\ fq' = Tail(fq)
            /\ IF ~IsLive(Head(fq))
               THEN UNCHANGED <<pc, cur, plan, flip, ret, skipped, hist>>
               ELSE IF IsElbow(Head(fq))
               THEN /\ cur' = Head(fq)
                    /\ plan' = ElbowPlan
                    /\ flip' = DefaultFlip
                    /\ ret' = "p2"
                    /\ pc' = "tx_start"
                    /\ UNCHANGED <<skipped, hist>>
               ELSE IF IsReducer(Head(fq))
               THEN IF is_reducer_fully_connected(Head(fq))
                    THEN /\ skipped' = skipped + 1
                         /\ hist' = [hist EXCEPT !.guarded[Head(fq)] = @ + 1]
                         /\ UNCHANGED <<pc, cur, plan, flip, ret>>
                    ELSE /\ cur' = Head(fq)
                         /\ plan' = ReducerPlan
                         /\ flip' = DefaultFlip
                         /\ ret' = "p2"
                         /\ pc' = "tx_start"
                         /\ UNCHANGED <<skipped, hist>>
               ELSE UNCHANGED <<pc, cur, plan, flip, ret, skipped, hist>>
    /\ UNCHANGED <<docVars, sheetVars, classVars, params, pq, refs, main, main_dir,
                   branch_pipe, visited, updated, k, res, txOpen, snap, tg,
                   shown, faults>>

\* tg.Assimilate(); MessageBox.Show(...)
Finish ==
    /\ pc = "finish"
    /\ tg' = "assimilated"
    /\ shown' = Append(shown, <<updated, skipped>>)
    /\ pc' = "done"
    /\ UNCHANGED <<docVars, sheetVars, classVars, loopVars, txVars, params, updated,
                   skipped, faults, hist>>

(***************************************************************************)
(* The documents a run starts from.                                        *)
(***************************************************************************)
PlainMain ==
    [name |-> "pe", diam |-> 180, curve |-> <<Origin, <<1, 0, 0>>>>, junk |-> << >>]
SlantedMain ==
    [name |-> "pe", diam |-> 180, curve |-> <<<<1, 0, 0>>, <<21, 3, 0>>>>, junk |-> << >>]
PipeDescs1 ==
    {PlainMain,
     [name |-> "pe", diam |-> 160, curve |-> NoCurve, junk |-> <<StaleId>>],
     [name |-> "pe", diam |-> 180, curve |-> <<Origin, <<1, 0, 0>>>>, junk |-> <<NoOwner>>]}
PipeDescs2 ==
    {SlantedMain,
     [name |-> "pvc", diam |-> 180, curve |-> <<Origin, <<0, 1, 0>>>>, junk |-> << >>],
     [name |-> "pe", diam |-> 125, curve |-> <<Origin, <<-20, 3, 0>>>>, junk |-> << >>]}

ConnChoices(f) ==
    { << <<1>>, <<2>> >>, << <<2>>, <<1>> >>, << <<1>> >>, << <<2>>, << >> >>,
      << << >>, << >> >>, << <<1, 1>>, << >> >>, << <<f, 1>>, <<StaleId>> >>,
      << <<1>>, <<2>>, <<NoOwner>> >> }

\* What one fitting may be: every connector layout for the families the
\* script tells by their connectors, one layout for the others, and the
\* fittings that fail a liveness check or whose connectors cannot be read.
FitDescs(f) ==
    [family : {"tee", "reducer", "teeReducer"}, live : {"ok"}, mep : {"ok"},
     conns : ConnChoices(f)]
    \cup [family : FamilyKeys, live : {"ok"}, mep : {"ok"},
          conns : {<< <<1>>, <<2>> >>}]
    \cup [family : {"tee", "reducer"}, live : LiveStates \ {"ok"}, mep : {"ok"},
          conns : {<< <<1>>, <<2>> >>}]
    \cup [family : {"tee", "reducer"}, live : {"ok"}, mep : {"fault"},
          conns : {<< <<1>>, <<2>> >>}]
    \cup [family : {"elbow"}, live : {"ok"}, mep : {"ok", "fault"},
          conns : {<< <<1>>, <<2>> >>, << << >>, << >> >>}]
    \cup [family : {"elbow"}, live : {"invalid"}, mep : {"ok"},
          conns : {<< <<1>>, <<2>> >>}]

\* The fittings around the one that varies.
CoreDescs ==
    {[family |-> "tee", live |-> "ok", mep |-> "ok", conns |-> << <<1>>, <<2>> >>],
     [family |-> "reducer", live |-> "ok", mep |-> "ok", conns |-> << <<2>>, << >> >>]}

Profiles ==
    {[n \in ParamNames |-> "int0"],
     [n \in ParamNames |-> "int1"],
     [n \in ParamNames |->
        IF n \in {KK, BVP} THEN "absent"
        ELSE IF n \in {RE, BI} THEN "text"
        ELSE IF n \in {SW, E45} THEN "int1"
        ELSE "int0"]}

TxIdle ==
    /\ cur = 0
    /\ plan = << >>
    /\ flip = FALSE
    /\ k = 1
    /\ ret = "none"
    /\ res = FALSE
    /\ txOpen = FALSE
    /\ snap = params

ClassIdle ==
    /\ cv = NoneV
    /\ cw = NoneV
    /\ cres = "none"

SheetIdle ==
    /\ sheets = << >>
    /\ target_doc = {}
    /\ existing_sheet_numbers = {}
    /\ new_sheet_number = << >>
    /\ orig_sheet_number = << >>
    /\ count = 1
    /\ copied_sheet_count = 0
    /\ assigned = << >>

Init ==
    /\ pipes \in [PipeIds -> PipeDescs1 \cup PipeDescs2]
    /\ pipes[1] \in PipeDescs1
    /\ pipes[2] \in PipeDescs2
    /\ pipes[1] = PlainMain \/ pipes[2] = SlantedMain
    /\ fits \in [FittingIds -> UNION {FitDescs(f) : f \in FittingIds}]
    /\ \A f \in FittingIds : fits[f] \in FitDescs(f)
    /\ \E f \in FittingIds : \A g \in FittingIds \ {f} : fits[g] \in CoreDescs
    /\ params \in [FittingIds -> Profiles]
    /\ \E f \in FittingIds : \A g \in FittingIds \ {f} :
          params[g] = [n \in ParamNames |-> IF fits[g].family = "tee" THEN "int0" ELSE "int1"]
    /\ pre = params
    /\ pc = "init"
    /\ pq = << >>
    /\ refs = << >>
    /\ main = 0
    /\ main_dir = NoneV
    /\ branch_pipe = 0
    /\ fq = << >>
    /\ visited = {}
    /\ updated = 0
    /\ skipped = 0
    /\ TxIdle
    /\ tg = "none"
    /\ shown = << >>
    /\ faults = 0
    /\ hist = HistZero
    /\ ClassIdle
    /\ SheetIdle
    /\ rnd = ExactRounding

Next ==
    \/ Begin
    \/ Pass1Pipe
    \/ Pass1Ref
    \/ TxStart
    \/ TxSet
    \/ TxCommit
    \/ TxRollBack
    \/ AfterUpdate
    \/ Pass2Fitting
    \/ Finish

Spec == Init /\ [][Next]_vars

(***************************************************************************)
(* try_update_fitting taken alone: one fitting, every state of the         *)
(* parameters a plan names, every plan of the script, applied up to        *)
(* MaxApplies times in succession.                                         *)
(***************************************************************************)
MaxApplies == 2
TheFitting == 11

Plans == {ReducerPlan, ElbowPlan} \cup {TeePlan(s) : s \in {"true", "false", "none"}}

PlanNames(pl) == {pl[i][1] : i \in 1..Len(pl)}

\* The parameters that vary: those of the plan, the bend parameters apart.
Varied(pl) == PlanNames(pl) \ {BV, BVP}

Reapply ==
    /\ pc = "applied"
    /\ updated + skipped < MaxApplies
    /\ pc' = "tx_start"
    /\ UNCHANGED <<docVars, sheetVars, loopVars, classVars, txVars, params, updated,
                   skipped, tg, shown, faults, hist>>

InitApply ==
    /\ pipes = [p \in PipeIds |->
                  [name |-> "pe", diam |-> 180, curve |-> <<Origin, <<1, 0, 0>>>>,
                   junk |-> << >>]]
    /\ fits = [f \in FittingIds |->
                 [family |-> "reducer", live |-> "ok", mep |-> "ok",
                  conns |-> << <<1>>, << >> >>]]
    /\ plan \in Plans
    /\ \E ps \in [Varied(plan) -> PVals] :
          params = [f \in FittingIds |-> [n \in ParamNames |->
                       IF f = TheFitting /\ n \in Varied(plan) THEN ps[n] ELSE "int0"]]
    /\ pre = params
    /\ pc = "tx_start"
    /\ pq = << >>
    /\ refs = << >>
    /\ main = 0
    /\ main_dir = NoneV
    /\ branch_pipe = 0
    /\ fq = << >>
    /\ visited = {}
    /\ updated = 0
    /\ skipped = 0
    /\ cur = TheFitting
    /\ flip = DefaultFlip
    /\ k = 1
    /\ ret = "applied"
    /\ res = FALSE
    /\ txOpen = FALSE
    /\ snap = params
    /\ tg = "open"
    /\ shown = << >>
    /\ faults = 0
    /\ hist = HistZero
    /\ ClassIdle
    /\ SheetIdle
    /\ rnd = ExactRounding

NextApply ==
    \/ TxStart
    \/ TxSet
    \/ TxCommit
    \/ TxRollBack
    \/ AfterUpdate
    \/ Reapply

SpecApply == InitApply /\ [][NextApply]_vars

(***************************************************************************)
(* determine_switch_excentriciteit taken alone, over the vectors of a cube *)
(* and the directions of the documents above.                              *)
(***************************************************************************)
Cube == (0 - MaxCoord)..MaxCoord

\* Vectors with pairs on a threshold: (-3,0,-3) has the normalized dot
\* product 21/30 with (-4,-5,-3) and (-4,5,-3) and -21/30 with (3,-5,4);
\* (-5,-3,-4) has the cross product's Z 7/70 with (9,4,-1) and (9,4,1) and
\* -7/70 with (-9,-4,-1).
ThresholdVectors ==
    {<<-3, 0, -3>>, <<-4, -5, -3>>, <<-4, 5, -3>>, <<3, -5, 4>>,
     <<-5, -3, -4>>, <<9, 4, -1>>, <<9, 4, 1>>, <<-9, -4, -1>>}

\* A product of the pair lies on a threshold of the classifier.
PairOnThreshold(a, b) ==
    /\ a # NoneV /\ b # NoneV
    /\ \/ OnThreshold(Dot(a, b), a, b, 7)
       \/ OnThreshold(CrossZ(a, b), a, b, 1)
Vectors ==
    (Cube \X Cube \X Cube)
    \cup {<<20, 3, 0>>, <<-20, 3, 0>>, <<20, -3, 0>>, <<-20, -3, 0>>, <<-20, 1, 0>>}
    \cup ThresholdVectors

Classify ==
    /\ pc = "classify"
    /\ cres' = determine_switch_excentriciteit(cv, cw)
    /\ pc' = "classified"
    /\ UNCHANGED <<docVars, sheetVars, loopVars, txVars, params, updated, skipped, tg,
                   shown, faults, hist, cv, cw>>

InitClassify ==
    /\ cv \in Vectors \cup {NoneV}
    /\ cw \in Vectors \cup {NoneV}
    /\ cres = "none"
    /\ pc = "classify"
    /\ pipes = [p \in PipeIds |->
                  [name |-> "pe", diam |-> 180, curve |-> NoCurve, junk |-> << >>]]
    /\ fits = [f \in FittingIds |->
                 [family |-> "other", live |-> "ok", mep |-> "ok", conns |-> << >>]]
    /\ params = [f \in FittingIds |-> [n \in ParamNames |-> "absent"]]
    /\ pre = params
    /\ pq = << >>
    /\ refs = << >>
    /\ main = 0
    /\ main_dir = NoneV
    /\ branch_pipe = 0
    /\ fq = << >>
    /\ visited = {}
    /\ updated = 0
    /\ skipped = 0
    /\ TxIdle
    /\ tg = "none"
    /\ shown = << >>
    /\ faults = 0
    /\ hist = HistZero
    /\ SheetIdle
    /\ rnd \in (IF PairOnThreshold(cv, cw) THEN Roundings ELSE {ExactRounding})

NextClassify == Classify

SpecClassify == InitClassify /\ [][NextClassify]_vars

(***************************************************************************)
(* auto_fix run again on the document it has just left, with no fault      *)
(* raised by the host: up to MaxRuns runs in succession.  pre and hist are *)
(* those of the run in progress; shown keeps the summary of every run.     *)
(***************************************************************************)
MaxRuns == 2

\* The script is run again.
Rerun ==
    /\ pc = "done"
    /\ Len(shown) < MaxRuns
    /\ pc' = "init"
    /\ pre' = params
    /\ hist' = HistZero
    /\ tg' = "none"
    /\ UNCHANGED <<pipes, fits, rnd, sheetVars, classVars, loopVars, txVars, params,
                   updated,
                   skipped, shown, faults>>

\* One step of a run in which the host raises no fault.
StepNoFault == Next /\ UNCHANGED faults

NextRerun ==
    \/ StepNoFault
    \/ Rerun

SpecRerun == Init /\ [][NextRerun]_vars

(***************************************************************************)
(* get_branch_pipe taken alone: one fitting with up to two connectors of   *)
(* up to two references each, and a main pipe id that is one of the pipes  *)
(* or the id of an element the fitting does not reference.                 *)
(***************************************************************************)
RefChoices == {1, 2, 12, NoOwner}
RefSeqs == {<< >>} \cup {<<a>> : a \in RefChoices}
               \cup {<<a, b>> : a \in RefChoices, b \in RefChoices}
BranchLayouts == {<<c>> : c \in RefSeqs} \cup {<<c, d>> : c \in RefSeqs, d \in RefSeqs}

ResolveBranch ==
    /\ pc = "branch"
    /\ branch_pipe' = get_branch_pipe(cur, main)
    /\ pc' = "branched"
    /\ UNCHANGED <<docVars, sheetVars, classVars, txVars, params, pq, refs, main,
                   main_dir, fq, visited, updated, skipped, tg, shown, faults,
                   hist>>

InitBranch ==
    /\ pipes = [p \in PipeIds |->
                  [name |-> "pe", diam |-> 180, curve |-> <<Origin, <<1, 0, 0>>>>,
                   junk |-> << >>]]
    /\ \E layout \in BranchLayouts, m \in {"ok", "fault"} :
          fits = [f \in FittingIds |->
                    [family |-> "tee", live |-> "ok", mep |-> m,
                     conns |-> IF f = TheFitting THEN layout ELSE << >>]]
    /\ main \in PipeIds \cup {StaleId}
    /\ params = [f \in FittingIds |-> [n \in ParamNames |-> "int0"]]
    /\ pre = params
    /\ pc = "branch"
    /\ pq = << >>
    /\ refs = << >>
    /\ main_dir = NoneV
    /\ branch_pipe = 0
    /\ fq = << >>
    /\ visited = {}
    /\ updated = 0
    /\ skipped = 0
    /\ cur = TheFitting
    /\ plan = << >>
    /\ flip = FALSE
    /\ k = 1
    /\ ret = "none"
    /\ res = FALSE
    /\ txOpen = FALSE
    /\ snap = params
    /\ tg = "none"
    /\ shown = << >>
    /\ faults = 0
    /\ hist = HistZero
    /\ ClassIdle
    /\ SheetIdle
    /\ rnd = ExactRounding

NextBranch == ResolveBranch

SpecBranch == InitBranch /\ [][NextBranch]_vars

(***************************************************************************)
(* copy_sheets of the sheet transfer script: the loop that gives every     *)
(* copied sheet a number that is free in the target document.  Sheet       *)
(* numbers are sequences of characters.                                    *)
(***************************************************************************)
MaxSheets == 2
MaxCopies == 2

Digits == <<"0", "1", "2", "3", "4", "5", "6", "7", "8", "9">>

\* str.format of a positive integer: its decimal digits
RECURSIVE Str(_)
Str(n) == IF n < 10 THEN <<Digits[n + 1]>>
          ELSE Str(n \div 10) \o <<Digits[(n % 10) + 1]>>

CopyWord == <<"_", "c", "o", "p", "y">>

\* "{}_copy{}".format(orig_sheet_number, count if count > 1 else "")
FormatCopy(orig, n) ==
    orig \o CopyWord \o (IF n > 1 THEN Str(n) ELSE << >>)

\* The sheet numbers the two documents draw from: two plain numbers, and
\* numbers that already look like renamed copies.
SheetA == <<"A">>
SheetB == <<"B">>
NumberPool ==
    {SheetA, SheetB, SheetA \o CopyWord \o CopyWord}
    \cup {SheetA \o CopyWord \o (IF i = 1 THEN << >> ELSE Str(i)) : i \in 1..MaxCopies}

\* The sheets collect_views_and_sheets hands over: each sheet of the source
\* document at most once, and at least one (main skips an empty list).  The
\* sheet numbers of one document are distinct.
SourceLists ==
    {sq \in UNION {[1..n -> NumberPool] : n \in 1..MaxSheets} :
        \A i, j \in 1..Len(sq) : i # j => sq[i] # sq[j]}

\* for s in sheets: lines 390-394
NextSheet ==
    /\ pc = "cs_for"
    /\ sheets # << >>
    /\ new_sheet_number' = Head(sheets)
    /\ count' = 1
    /\ orig_sheet_number' = Head(sheets)
    /\ pc' = "cs_while"
    /\ UNCHANGED <<docVars, classVars, loopVars, txVars, params, updated, skipped,
                   tg, shown, faults, hist, pre, sheets, target_doc,
                   existing_sheet_numbers, copied_sheet_count, assigned>>

\* one turn of the while loop: lines 395-399
Rename ==
    /\ pc = "cs_while"
    /\ new_sheet_number \in existing_sheet_numbers
    /\ new_sheet_number' = FormatCopy(orig_sheet_number, count)
    /\ count' = count + 1
    /\ UNCHANGED <<docVars, classVars, loopVars, txVars, params, updated, skipped,
                   tg, shown, faults, hist, pre, pc, sheets, target_doc,
                   existing_sheet_numbers, orig_sheet_number,
                   copied_sheet_count, assigned>>

\* CreateSheet without existing_sheet_numbers.add(new_sheet_number).
CreateSheet_NoAdd ==
    /\ pc = "cs_while"
    /\ new_sheet_number \notin existing_sheet_numbers
    /\ assigned' = Append(assigned,
                      [src |-> orig_sheet_number,
                       num |-> new_sheet_number,
                       free |-> /\ orig_sheet_number \notin target_doc
                                /\ \A i \in 1..Len(assigned) :
                                      assigned[i].num # orig_sheet_number])
    /\ existing_sheet_numbers' = existing_sheet_numbers
    /\ copied_sheet_count' = copied_sheet_count + 1
    /\ sheets' = Tail(sheets)
    /\ pc' = "cs_for"
    /\ UNCHANGED <<docVars, classVars, loopVars, txVars, params, updated, skipped,
                   tg, shown, faults, hist, pre, target_doc, new_sheet_number,
                   orig_sheet_number, count>>

\* the while loop is left, the sheet is created and numbered: lines 400-417
CreateSheet ==
    /\ pc = "cs_while"
    /\ new_sheet_number \notin existing_sheet_numbers
    /\ assigned' = Append(assigned,
                      [src |-> orig_sheet_number,
                       num |-> new_sheet_number,
                       free |-> /\ orig_sheet_number \notin target_doc
                                /\ \A i \in 1..Len(assigned) :
                                      assigned[i].num # orig_sheet_number])
    /\ existing_sheet_numbers' = existing_sheet_numbers \cup {new_sheet_number}
    /\ copied_sheet_count' = copied_sheet_count + 1
    /\ sheets' = Tail(sheets)
    /\ pc' = "cs_for"
    /\ UNCHANGED <<docVars, classVars, loopVars, txVars, params, updated, skipped,
                   tg, shown, faults, hist, pre, target_doc, new_sheet_number,
                   orig_sheet_number, count>>

\* t.Commit() and return copied_sheet_count: lines 418-419
ReturnCount ==
    /\ pc = "cs_for"
    /\ sheets = << >>
    /\ pc' = "cs_done"
    /\ UNCHANGED <<docVars, classVars, loopVars, txVars, params, updated, skipped,
                   tg, shown, faults, hist, pre, sheetVars>>

InitSheets ==
    /\ sheets \in SourceLists
    /\ target_doc \in SUBSET NumberPool
    /\ existing_sheet_numbers = target_doc
    /\ new_sheet_number = << >>
    /\ orig_sheet_number = << >>
    /\ count = 1
    /\ copied_sheet_count = 0
    /\ assigned = << >>
    /\ pc = "cs_for"
    /\ pipes = [p \in PipeIds |->
                  [name |-> "pe", diam |-> 180, curve |-> NoCurve, junk |-> << >>]]
    /\ fits = [f \in FittingIds |->
                 [family |-> "other", live |-> "ok", mep |-> "ok", conns |-> << >>]]
    /\ params = [f \in FittingIds |-> [n \in ParamNames |-> "absent"]]
    /\ pre = params
    /\ pq = << >>
    /\ refs = << >>
    /\ main = 0
    /\ main_dir = NoneV
    /\ branch_pipe = 0
    /\ fq = << >>
    /\ visited = {}
    /\ updated = 0
    /\ skipped = 0
    /\ TxIdle
    /\ tg = "none"
    /\ shown = << >>
    /\ faults = 0
    /\ hist = HistZero
    /\ ClassIdle
    /\ rnd = ExactRounding

NextSheets ==
    \/ NextSheet
    \/ Rename
    \/ CreateSheet
    \/ ReturnCount

\* The script runs on one thread and nothing stops it between two
\* statements: a step that can be taken is taken.
SpecSheets == InitSheets /\ [][NextSheets]_vars /\ WF_vars(NextSheets)

(***************************************************************************)
(* Properties.                                                             *)
(***************************************************************************)
Range(sq) == {sq[i] : i \in 1..Len(sq)}

QualifyingMains ==
    {p \in PipeIds : is_pipe_of_type(p, MainPipeName, MinMainDiameter)}

\* The qualifying main pipes one of whose connectors references f: in the
\* document these are the pipes that a connector of f references.
MainsReferencing(f) ==
    {p \in PipeIds :
        /\ p \in Range(Flatten(fits[f].conns))
        /\ is_pipe_of_type(p, MainPipeName, MinMainDiameter)}

\* The first loop has run over every pipe.
PassOneDone == pc \in {"p2", "finish", "done"} \/ ret = "p2"

\* The second loop has dealt with fitting f.
PassTwoTurnDone(f) == pc \in {"p2", "finish", "done"} /\ f \notin Range(fq)

\* The distinct live owners, other than f, that f's connectors reference.
LiveOwners(f) ==
    {o \in Range(Flatten(fits[f].conns)) :
        /\ o # f
        /\ o # NoOwner
        /\ ~IsMissing(o)
        /\ IsPipe(o) \/ IsLive(o)}

PlanValue(v) == IF v = "true" THEN "int1" ELSE "int0"
ValueIn(pl, n) == pl[CHOOSE i \in 1..Len(pl) : pl[i][1] = n][2]

\* The classifier's verdict for the Tee of the running call.
VerdictForCur ==
    determine_switch_excentriciteit(
        main_dir, get_direction_vector(get_branch_pipe(cur, main)))

\* C1: in the first loop no fitting has more than one update unit started
\* on it or is counted more than once, and when the loop has run over every
\* pipe, a live Tee that two or more qualifying main pipes reference has had
\* exactly one unit started and was counted exactly once.
C1_TeeUpdatedOnce ==
    \A f \in FittingIds :
        /\ hist.started[<<1, f>>] <= 1
        /\ hist.counted[<<1, f>>] <= 1
        /\ (PassOneDone /\ IsLive(f) /\ IsTee(f)
                /\ Cardinality(MainsReferencing(f)) >= 2)
           => (hist.started[<<1, f>>] = 1 /\ hist.counted[<<1, f>>] = 1)

C1_Witness ==
    /\ pc = "done"
    /\ \E f \in FittingIds :
          /\ IsLive(f) /\ IsTee(f)
          /\ Cardinality(MainsReferencing(f)) >= 2
          /\ hist.started[<<1, f>>] = 1
          /\ hist.counted[<<1, f>>] = 1

\* C2: when the classifier abstains for a Tee, a fault-free update of the
\* Tee sets the two short-pattern parameters and eccentric to true and
\* leaves switch-eccentricity at the value it had before the update.
C2_AbstainKeepsSwitch ==
    (pc = "tx_ret" /\ Pass = 1 /\ res /\ faults = 0 /\ VerdictForCur = "none")
    => /\ \A n \in {KK, KG, RE} : IsYesNo(snap[cur][n]) => params[cur][n] = "int1"
       /\ params[cur][SW] = snap[cur][SW]

\* C3: when a fault is raised at any step of applying a plan of four
\* assignments, the call returns False and every parameter has its
\* pre-call value.
C3_FaultRollsBackAll ==
    (pc = "tx_ret" /\ Len(plan) = 4 /\ faults > 0 /\ updated + skipped = 0)
    => (res = FALSE /\ params = snap)

\* C4: a live Reducer with two or more live connected owners other than
\* itself is only counted as skipped by the second loop: no unit is started
\* for it and its parameters stay as they were when the loop began.
C4_ConnectedReducerSkipped ==
    \A f \in FittingIds :
        (IsLive(f) /\ IsReducer(f) /\ ~IsElbow(f) /\ PassTwoTurnDone(f)
            /\ Cardinality(LiveOwners(f)) >= 2)
        => /\ hist.started[<<2, f>>] = 0
           /\ hist.guarded[f] = 1
           /\ params[f] = hist.mid[f]

\* What determine_switch_excentriciteit is to return, from the products of
\* the normalized vectors.
ExpectedFlow(v, w) ==
    IF NormGreater(Dot(v, w), v, w, 7, rnd.dot) THEN "With"
    ELSE IF NormLess(Dot(v, w), v, w, 7, rnd.dot) THEN "Against"
    ELSE "Ambiguous"

ExpectedSide(v, w) ==
    IF NormGreater(CrossZ(v, w), v, w, 1, rnd.cross) THEN "Right"
    ELSE IF NormLess(CrossZ(v, w), v, w, 1, rnd.cross) THEN "Left"
    ELSE "Ambiguous"

\* C5: the classifier returns false for (Left, With), true for (Left,
\* Against), true for (Right, With), false for (Right, Against), and None
\* whenever the flow or the side is Ambiguous.
C5_SwitchTable ==
    (pc = "classified" /\ cv # NoneV /\ cw # NoneV)
    => LET fl == ExpectedFlow(cv, cw)
           sd == ExpectedSide(cv, cw)
       IN  /\ (sd = "Left" /\ fl = "With") => cres = "false"
           /\ (sd = "Left" /\ fl = "Against") => cres = "true"
           /\ (sd = "Right" /\ fl = "With") => cres = "true"
           /\ (sd = "Right" /\ fl = "Against") => cres = "false"
           /\ (sd = "Ambiguous" \/ fl = "Ambiguous") => cres = "none"

C5_Witness ==
    /\ pc = "classified"
    /\ cv # NoneV /\ cw # NoneV
    /\ ExpectedSide(cv, cw) = "Left"
    /\ ExpectedFlow(cv, cw) = "Against"
    /\ cres = "true"

\* C6: a live Reducer with fewer than two live neighbouring owners is given
\* the neutral plan by the second loop: the guard does not turn it away, one
\* unit is started and committed, and its four parameters are false.
C6_UnconnectedReducerNeutralised ==
    \A f \in FittingIds :
        (IsLive(f) /\ IsReducer(f) /\ ~IsElbow(f) /\ PassTwoTurnDone(f)
            /\ faults = 0 /\ Cardinality(LiveOwners(f)) < 2)
        => /\ hist.guarded[f] = 0
           /\ hist.started[<<2, f>>] = 1
           /\ hist.committed[<<2, f>>] = 1
           /\ \A n \in {KK, KG, SW, RE} :
                 IsYesNo(hist.mid[f][n]) => params[f][n] = "int0"

\* C7: when no fault is raised, a call of try_update_fitting returns True
\* and has written exactly the parameters of the plan that exist and are
\* integer-backed; an absent or otherwise typed parameter, and every
\* parameter outside the plan or of another fitting, is as before the call.
C7_MismatchDropsOneAssignment ==
    (pc = "tx_ret" /\ faults = 0)
    => /\ res = TRUE
       /\ txOpen = FALSE
       /\ \A f \in FittingIds : \A n \in ParamNames :
             params[f][n] =
                IF f = cur /\ n \in PlanNames(plan) /\ IsYesNo(snap[f][n])
                THEN PlanValue(ValueIn(plan, n))
                ELSE snap[f][n]

C7_Witness ==
    /\ pc = "tx_ret"
    /\ faults = 0
    /\ res = TRUE
    /\ \E n \in PlanNames(plan) : ~IsYesNo(snap[cur][n])
    /\ \E m \in PlanNames(plan) : params[cur][m] # snap[cur][m]

\* C8: no fault of a per-fitting unit leaves try_update_fitting.
C8_NoUnitFaultEscapes == pc # "aborted_unit"

\* C9: when the neutral plan has been applied to the Reducer two or more
\* times in succession, each apply committing and no fault raised, the
\* parameters after the last apply are those after the apply before it.
C9_NeutralPlanIdempotent ==
    (pc = "applied" /\ plan = ReducerPlan /\ faults = 0
        /\ hist.committed[<<2, TheFitting>>] >= 2)
    => params = snap

C9_Witness ==
    /\ pc = "applied"
    /\ plan = ReducerPlan
    /\ faults = 0
    /\ hist.committed[<<2, TheFitting>>] >= 2
    /\ params[TheFitting] # pre[TheFitting]
    /\ ~is_reducer_fully_connected(TheFitting)

\* C10: when the classifier's verdict for a Tee of the first loop is a
\* boolean b and the update commits with no fault raised, the Tee's two
\* short-pattern parameters and eccentric are true and switch-eccentricity
\* is b (each where the parameter exists and is integer-backed), and the
\* next step adds 1 to updated and nothing to skipped.
C10_TeePlanApplied ==
    [][(pc = "tx_ret" /\ Pass = 1 /\ res /\ faults = 0
            /\ VerdictForCur \in {"true", "false"})
       => /\ \A n \in {KK, KG, RE} :
                IsYesNo(snap[cur][n]) => params[cur][n] = "int1"
          /\ IsYesNo(snap[cur][SW]) => params[cur][SW] = PlanValue(VerdictForCur)
          /\ updated' = updated + 1
          /\ skipped' = skipped
          /\ params' = params]_vars

C10_Witness ==
    /\ pc = "tx_ret" /\ Pass = 1 /\ res /\ faults = 0
    /\ VerdictForCur = "true"
    /\ snap[cur][SW] = "int0"
    /\ params[cur][SW] = "int1"
    /\ params[cur][KK] = "int1"

\* The lower-cased family name of fitting f contains word.
NameHas(f, word) == Contains(Lower(FamilyNameOf[fits[f].family]), word)

\* C11: every live fitting whose lower-cased family name contains
\* 'multibocht' is given the plan {2x45 = false, buis_invogen = false} by the
\* second loop, whatever its connectors and its parameters before: when no
\* fault is raised, one unit is started and committed for it, both
\* parameters are false afterwards (each where the parameter exists and is
\* integer-backed), and the step after the commit adds 1 to updated.
C11_ElbowPlanApplied ==
    [][/\ \A f \in FittingIds :
             (PassTwoTurnDone(f) /\ faults = 0 /\ IsLive(f) /\ NameHas(f, ElbowWord))
             => /\ hist.started[<<2, f>>] = 1
                /\ hist.committed[<<2, f>>] = 1
                /\ hist.counted[<<2, f>>] = 1
                /\ \A n \in {E45, BI} :
                      IsYesNo(pre[f][n]) => params[f][n] = "int0"
       /\ (pc = "tx_ret" /\ Pass = 2 /\ res /\ faults = 0
               /\ NameHas(cur, ElbowWord))
          => /\ updated' = updated + 1
             /\ skipped' = skipped
             /\ params' = params]_vars

C11_Witness ==
    /\ pc = "done"
    /\ faults = 0
    /\ \E f \in FittingIds :
          /\ fits[f].family = "elbowUC"
          /\ pre[f][E45] = "int1" /\ params[f][E45] = "int0"
          /\ pre[f][BI] = "int1" /\ params[f][BI] = "int0"
          /\ hist.committed[<<2, f>>] = 1
    /\ updated >= 1

\* A try_update_fitting call is running.
InCall == pc \in {"tx_start", "tx_set", "tx_commit", "tx_rollback", "tx_ret"}

\* The Tee of the running call of the first loop has no branch pipe, or the
\* direction of the main pipe or of the branch pipe is None.
MissForCur ==
    \/ main_dir = NoneV
    \/ get_branch_pipe(cur, main) = 0
    \/ get_direction_vector(get_branch_pipe(cur, main)) = NoneV

\* C12: when a Tee found on a qualifying main pipe has no branch pipe, or
\* the direction of the main or of the branch pipe is None, the run goes on
\* without an exception and no plan is applied to the Tee: no unit is
\* started for it and its parameters keep their pre-run values.
C12_ResolutionMissSkipsTee ==
    (InCall /\ Pass = 1 /\ faults = 0 /\ MissForCur)
    => /\ hist.started[<<1, cur>>] = 0
       /\ params[cur] = pre[cur]

\* C13: in the first loop a reference whose Owner is None, whose owner fails
\* a liveness check or whose owner is not found in the document is passed
\* over: no exception leaves the run because of it, and no unit is started,
\* nothing is counted and no parameter is changed for such an owner.
C13_BadReferencePassedOver ==
    /\ pc # "aborted_ref"
    /\ \A f \in FittingIds :
          ~IsLive(f)
          => /\ hist.started[<<1, f>>] = 0
             /\ hist.counted[<<1, f>>] = 0
             /\ params[f] = pre[f]

\* The phase of the run: 0 Init, 1 the loop over the pipes, 2 the loop over
\* the fittings, 3 Finalize, 4 aborted.
Phase ==
    IF pc = "init" THEN 0
    ELSE IF Aborted THEN 4
    ELSE IF pc \in {"finish", "done"} THEN 3
    ELSE IF pc \in {"p1", "p1_ref"} \/ (InCall /\ Pass = 1) THEN 1
    ELSE 2

\* What C14 says of one state.
PhasesInOrder ==
    /\ (Phase = 2 \/ \E f \in FittingIds :
            hist.started[<<2, f>>] > 0 \/ hist.guarded[f] > 0)
       => (pq = << >> /\ refs = << >>)
    /\ \A x \in Passes \X FittingIds :
          hist.started[x] <= 1 /\ hist.counted[x] <= 1
    /\ Len(shown) <= 1
    /\ shown # << >> => (pc = "done" /\ fq = << >> /\ tg = "assimilated")
    /\ pc = "done" => shown = << <<updated, skipped>> >>
    /\ Aborted => shown = << >>

\* C14: a run goes through Init, the loop over the main pipes, the loop over
\* the fittings and Finalize in this order and never back; the second loop
\* handles no fitting before the first has run over every pipe; no unit is
\* started for a fitting that the same loop has counted; the summary is
\* shown once, after the second loop has ended, and never by a run that
\* aborts.
C14_PhasesInOrder ==
    [][/\ PhasesInOrder
       /\ PhasesInOrder'
       /\ Phase' \in {Phase, Phase + 1, 4}
       /\ \A x \in Passes \X FittingIds :
             hist.counted[x] >= 1 => hist'.started[x] = hist.started[x]]_vars

C14_Witness ==
    /\ pc = "done"
    /\ shown = << <<updated, skipped>> >>
    /\ \E f \in FittingIds : hist.counted[<<1, f>>] = 1
    /\ \E g \in FittingIds : hist.counted[<<2, g>>] = 1
    /\ updated + skipped >= 2

\* C15: no step of a call try_update_fitting(F, plan), be it the start, a
\* write, the commit, the rollback or the return, changes a parameter of a
\* fitting other than F; what a unit committed earlier for another fitting
\* wrote is still there after a rollback for F.
C15_OtherFittingsUntouched ==
    [][InCall => \A g \in FittingIds \ {cur} : params'[g] = params[g]]_vars

C15_Witness ==
    /\ pc = "tx_ret"
    /\ res = FALSE
    /\ hist.rolled[<<Pass, cur>>] = 1
    /\ params[cur] = snap[cur]
    /\ \E g \in FittingIds \ {cur} :
          /\ \E p \in Passes : hist.committed[<<p, g>>] = 1
          /\ params[g] # pre[g]

\* The families whose lower-cased name contains neither 'multibocht' nor
\* 'multireducer'.
PlainFamilies ==
    {key \in FamilyKeys :
        /\ ~Contains(Lower(FamilyNameOf[key]), ElbowWord)
        /\ ~Contains(Lower(FamilyNameOf[key]), ReducerWord)}

\* Fitting f is of variant Other: the first loop does not reach it as a Tee
\* from a qualifying main pipe, and its family is none the second loop knows.
IsOther(f) ==
    /\ fits[f].family \in PlainFamilies
    /\ ~(IsLive(f) /\ IsTee(f) /\ MainsReferencing(f) # {})

\* C16: a fitting of variant Other is given no plan and is not counted: in
\* neither loop is a unit started for it or a counter moved for it, the guard
\* of the reducers does not count it, and its parameters are those before
\* the run.
C16_OtherUntouched ==
    \A f \in FittingIds :
        \/ /\ \A p \in Passes :
                 /\ hist.started[<<p, f>>] = 0
                 /\ hist.counted[<<p, f>>] = 0
           /\ hist.guarded[f] = 0
           /\ params[f] = pre[f]
        \/ ~IsOther(f)

C16_Witness ==
    /\ pc = "done"
    /\ updated >= 1
    /\ \E f \in FittingIds :
          /\ fits[f].family = "other"
          /\ IsOther(f)
          /\ f \in visited
          /\ params[f] = pre[f]

\* C17: the second loop handles every fitting at most once, and no fitting
\* that was given the Tee plan by the first loop is given the Elbow or the
\* Reducer plan, or turned away by the reducer guard, by the second.
C17_TeeDisjointFromElbowReducer ==
    \A f \in FittingIds :
        /\ hist.started[<<2, f>>] + hist.guarded[f] <= 1
        /\ hist.started[<<1, f>>] > 0
           => (hist.started[<<2, f>>] = 0 /\ hist.guarded[f] = 0)

Neg(a) == <<0 - a[1], 0 - a[2], 0 - a[3]>>

\* The normalized dot product of v and w, as computed, is above 0.7 or
\* below -0.7.
Aligned(v, w) ==
    \/ NormGreater(Dot(v, w), v, w, 7, rnd.dot)
    \/ NormLess(Dot(v, w), v, w, 7, rnd.dot)

\* C18: for vectors v, w whose normalized dot product exceeds 0.7 in
\* magnitude, the flow of (v, w) is "against" exactly when the flow of
\* (-v, w) is "with", likewise for (v, -w), and the flow of (-v, -w) is the
\* flow of (v, w).
C18_FlowFlipsUnderNegation ==
    (pc = "classified" /\ cv # NoneV /\ cw # NoneV /\ Aligned(cv, cw))
    => /\ FlowDir(cv, cw) = "against" <=> FlowDir(Neg(cv), cw) = "with"
       /\ FlowDir(cv, cw) = "against" <=> FlowDir(cv, Neg(cw)) = "with"
       /\ FlowDir(Neg(cv), Neg(cw)) = FlowDir(cv, cw)
       /\ FlowDir(cv, cw) \in {"with", "against"}

C18_Witness ==
    /\ pc = "classified"
    /\ cv # NoneV /\ cw # NoneV
    /\ Aligned(cv, cw)
    /\ Dot(cv, cw) * Dot(cv, cw) < Len2(cv) * Len2(cw)
    /\ FlowDir(cv, cw) = "against"
    /\ FlowDir(Neg(cv), cw) = "with"
    /\ cres = "true"

\* The scenario of C19: main direction (1, 0, 0), branch direction
\* (-1, 0.05, 0), the latter scaled by 20 (Normalize undoes the scale).
ScenarioMain == <<1, 0, 0>>
ScenarioBranch == <<-20, 1, 0>>

\* C19 as stated: for main direction (1,0,0) and branch direction
\* (-1, 0.05, 0) the flow is "against" and the classifier returns a boolean,
\* the table entry for the branch's side and flow "against".
C19_ScenarioYieldsBoolean ==
    (pc = "classified" /\ cv = ScenarioMain /\ cw = ScenarioBranch)
    => /\ FlowDir(cv, cw) = "against"
       /\ cres \in {"true", "false"}
       /\ cres = SwitchTable(Side(cv, cw), "against")

\* C19, amended: for main direction (1,0,0) and branch direction
\* (-1, 0.05, 0) the flow is "against", the cross product's Z of the
\* normalized vectors (about 0.05) is within the band of 0.1 so the side is
\* ambiguous, and the classifier returns None.
C19_ScenarioSkips ==
    (pc = "classified" /\ cv = ScenarioMain /\ cw = ScenarioBranch)
    => /\ FlowDir(cv, cw) = "against"
       /\ Side(cv, cw) = "ambiguous"
       /\ CrossZ(cv, cw) > 0
       /\ cres = "none"

C19_Witness ==
    /\ pc = "classified"
    /\ cv = ScenarioMain
    /\ cw = ScenarioBranch
    /\ cres = "none"

\* The references get_branch_pipe is to choose from: owners that are pipes
\* other than the main pipe, by their position in connector then reference
\* order.
BranchCandidates ==
    {i \in 1..Len(Flatten(fits[cur].conns)) :
        /\ Flatten(fits[cur].conns)[i] \in PipeIds
        /\ Flatten(fits[cur].conns)[i] # main}

\* C20: get_branch_pipe(tee, main_id) returns the owner of the first
\* reference, in connector then reference order, that is a pipe other than
\* main_id; it returns neither the main pipe nor an owner that is no pipe;
\* it returns None when there is no such reference and when reading the
\* connectors raises.
C20_BranchIsFirstOtherPipe ==
    pc = "branched"
    => /\ branch_pipe # main
       /\ branch_pipe = 0 \/ branch_pipe \in PipeIds
       /\ fits[cur].mep = "fault" => branch_pipe = 0
       /\ (fits[cur].mep = "ok" /\ BranchCandidates = {}) => branch_pipe = 0
       /\ (fits[cur].mep = "ok" /\ BranchCandidates # {})
          => branch_pipe =
                Flatten(fits[cur].conns)[
                    CHOOSE i \in BranchCandidates :
                        \A j \in BranchCandidates : i <= j]

C20_Witness ==
    /\ pc = "branched"
    /\ fits[cur].mep = "ok"
    /\ main \in PipeIds
    /\ Len(fits[cur].conns) = 2
    /\ fits[cur].conns[1] = <<main, 12>>
    /\ Len(fits[cur].conns[2]) = 2
    /\ fits[cur].conns[2][1] = NoOwner
    /\ branch_pipe = fits[cur].conns[2][2]
    /\ branch_pipe # 0

\* Fitting f is not eccentric while its switch-eccentricity is on, in store ps.
Inconsistent(ps, f) == ps[f][RE] = "int0" /\ ps[f][SW] = "int1"

\* C21: when a call of try_update_fitting with the neutral plan of the
\* reducers has returned, committed or rolled back, with or without a fault
\* on one parameter write, the fitting is not left with eccentric false and
\* switch-eccentricity true unless it was so before the call.
C21_EccentricityConsistent ==
    (pc = "tx_ret" /\ plan = ReducerPlan)
    => (Inconsistent(params, cur) => Inconsistent(snap, cur))

\* What C22 says of one state: a unit is open only inside a call and inside
\* the open group, no unit is open when the next is about to start, and
\* outside a call every unit started has been ended by one commit or one
\* rollback; the summary is shown only when the group is assimilated.
\* A unit is open only inside its own call, or after the fault that ended
\* the run inside that call; every other unit that was started has ended by
\* one commit or one rollback.
UnitsInOrder ==
    /\ txOpen => ((InCall \/ pc = "aborted_unit") /\ tg = "open")
    /\ pc = "tx_start" => (~txOpen /\ tg = "open")
    /\ (~InCall /\ pc # "aborted_unit")
       => /\ ~txOpen
          /\ \A x \in Passes \X FittingIds :
                hist.started[x] = hist.committed[x] + hist.rolled[x]
    /\ (InCall \/ pc = "aborted_unit")
       => \A x \in (Passes \X FittingIds) \ {<<Pass, cur>>} :
             hist.started[x] = hist.committed[x] + hist.rolled[x]
    /\ shown # << >> => tg = "assimilated"
    /\ pc = "done" => tg = "assimilated"

\* C22: every parameter write happens inside an open unit; no unit starts
\* while another is open; a unit that is started is ended by one commit or
\* one rollback before the next starts; units lie between the start of the
\* group and its assimilation; the group is assimilated once, when the last
\* unit has ended, and the summary is not shown before.
C22_TransactionDiscipline ==
    [][/\ UnitsInOrder
       /\ UnitsInOrder'
       /\ params' # params => txOpen
       /\ (txOpen' /\ ~txOpen) => (pc = "tx_start" /\ tg = "open")
       /\ tg' # tg
          => \/ tg = "none" /\ tg' = "open" /\ pc = "init"
             \/ /\ tg = "open" /\ tg' = "assimilated"
                /\ ~txOpen /\ fq = << >> /\ pq = << >> /\ shown = << >>
       /\ \A x \in Passes \X FittingIds :
             hist'.committed[x] + hist'.rolled[x] <= hist'.started[x]]_vars

C22_Witness ==
    /\ pc = "done"
    /\ tg = "assimilated"
    /\ ~txOpen
    /\ \E x \in Passes \X FittingIds : hist.committed[x] = 1 /\ hist.started[x] = 1
    /\ \E y \in Passes \X FittingIds : hist.rolled[y] = 1 /\ hist.started[y] = 1
    /\ params # pre

\* The pipe names that contain the main pipe name.
MainNameKeys ==
    {key \in DOMAIN PipeNameOf : Contains(PipeNameOf[key], MainPipeName)}

\* Pipe p is a main pipe: its name contains the main pipe name and its
\* diameter is at least 160 mm.
SeedsTraversal(p) == pipes[p].name \in MainNameKeys /\ pipes[p].diam >= 160

\* A connector reference of fitting f leads to a main pipe.
OnMainPipe(f) ==
    \E p \in PipeIds : p \in Range(Flatten(fits[f].conns)) /\ SeedsTraversal(p)

\* C23: the first loop walks the connectors of a pipe exactly when the name
\* of the pipe contains the main pipe name and its diameter is at least
\* 160 mm; a fitting none of whose connector references leads to such a pipe
\* is given no unit by the first loop, and its parameters are as before the
\* run for as long as the second loop has not handled it.
C23_OnlyTeesOnMains ==
    [][/\ (pc = "p1" /\ pq # << >>)
          => /\ pc' = "p1_ref" <=> SeedsTraversal(Head(pq))
             /\ pc' = "p1_ref" => main' = Head(pq)
       /\ \A f \in FittingIds :
             \/ /\ hist'.started[<<1, f>>] = 0
                /\ hist'.started[<<2, f>>] > 0 \/ params'[f] = pre[f]
             \/ OnMainPipe(f)]_vars

C23_Witness ==
    /\ pc = "done"
    /\ faults = 0
    /\ \E q \in PipeIds : ~SeedsTraversal(q)
    /\ \E f \in FittingIds :
          /\ IsLive(f) /\ IsTee(f) /\ ~OnMainPipe(f)
          /\ Flatten(fits[f].conns) # << >>
          /\ params[f] = pre[f]
    /\ \E g \in FittingIds : hist.committed[<<1, g>>] = 1 /\ OnMainPipe(g)

\* C24: when the Tee plan has been applied to a Tee by the first loop, every
\* parameter of the Tee other than the two short-pattern parameters,
\* eccentric and switch-eccentricity has the value it had before the update.
C24_TeePlanFrame ==
    (pc = "tx_ret" /\ Pass = 1 /\ res /\ faults = 0)
    => \A n \in ParamNames \ {KK, KG, RE, SW} : params[cur][n] = snap[cur][n]

RECURSIVE SumOf(_, _)
\* The sum of fn over the set S of its arguments.
SumOf(fn, S) ==
    IF S = {} THEN 0
    ELSE LET x == CHOOSE y \in S : TRUE
         IN  fn[x] + SumOf(fn, S \ {x})

\* The families the first loop takes for a Tee, and those the second loop
\* takes for an Elbow or a Reducer.
TeeFamilies ==
    {key \in FamilyKeys :
        FamilyNameOf[key] # << >> /\ StartsWith(FamilyNameOf[key], TeePrefix)}
ElbowOrReducerFamilies == FamilyKeys \ PlainFamilies

\* A call has returned and its result is not yet counted.
Pending(r) == IF pc = "tx_ret" /\ res = r THEN 1 ELSE 0

\* What C25 says of one state.
CountersAccount ==
    /\ updated + Pending(TRUE) = SumOf(hist.committed, Passes \X FittingIds)
    /\ skipped + Pending(FALSE)
          = SumOf(hist.rolled, Passes \X FittingIds) + SumOf(hist.guarded, FittingIds)
    /\ pc \in {"finish", "done"}
       => updated + skipped =
             Cardinality({f \in FittingIds :
                 IsLive(f) /\ fits[f].family \in TeeFamilies /\ OnMainPipe(f)})
             + Cardinality({f \in FittingIds :
                 IsLive(f) /\ fits[f].family \in ElbowOrReducerFamilies})

\* C25: at every point of a run updated is the number of units committed
\* and skipped the number of units rolled back plus the number of reducers
\* the guard turned away (a call that has returned is counted by the next
\* step); at Finalize updated + skipped is the number of Tees the first loop
\* dispatched plus the number of live Elbow and Reducer fittings; neither
\* counter ever decreases.
C25_CounterAccounting ==
    [][/\ CountersAccount
       /\ CountersAccount'
       /\ updated' >= updated
       /\ skipped' >= skipped]_vars

C25_Witness ==
    /\ pc = "done"
    /\ updated >= 1
    /\ skipped >= 2
    /\ \E f \in FittingIds : hist.guarded[f] = 1
    /\ \E x \in Passes \X FittingIds : hist.rolled[x] = 1

\* Python's `not` on the classifier's boolean.
NotBool(b) == IF b = "true" THEN "false" ELSE "true"

\* C26: for all vectors v, w the classifier returns for (-v, w) and for
\* (v, -w) what it returns for (v, w), None included, and when it returns a
\* boolean for (v, w) it returns the negation for (w, v).
C26_DirectionIndependent ==
    (pc = "classified" /\ cv # NoneV /\ cw # NoneV)
    => /\ determine_switch_excentriciteit(Neg(cv), cw) = cres
       /\ determine_switch_excentriciteit(cv, Neg(cw)) = cres
       /\ cres \in {"true", "false"}
          => determine_switch_excentriciteit(cw, cv) = NotBool(cres)
       /\ cres = "none" => determine_switch_excentriciteit(cw, cv) = "none"

C26_Witness ==
    /\ pc = "classified"
    /\ cv # NoneV /\ cw # NoneV
    /\ cres = "false"
    /\ Side(cv, cw) = "left"
    /\ determine_switch_excentriciteit(Neg(cv), cw) = "false"
    /\ Side(Neg(cv), cw) = "right"
    /\ determine_switch_excentriciteit(cw, cv) = "true"

\* C27: when auto_fix is run again right after a run, on the same
\* connectivity and family names and with no fault, the second run leaves
\* every parameter of every fitting as the first run left it and shows the
\* same updated and skipped counts.
C27_RunIdempotent ==
    (pc = "done" /\ Len(shown) >= 2)
    => /\ params = pre
       /\ shown[Len(shown)] = shown[Len(shown) - 1]

C27_Witness ==
    /\ pc = "done"
    /\ Len(shown) = 2
    /\ params = pre
    /\ shown[2] = shown[1]
    /\ updated >= 1 /\ skipped >= 1
    /\ \E x \in Passes \X FittingIds : hist.committed[x] = 1

\* C28: every call of try_update_fitting in a run has flip = False and
\* FlipHand is invoked on no fitting; no step of a run changes the elements,
\* their connectors or what the reducer guard answers for any fitting.
C28_NoFlipNoReconnect ==
    [][/\ InCall => flip = FALSE
       /\ \A f \in FittingIds : hist'.flipped[f] = 0
       /\ fits' = fits /\ pipes' = pipes
       /\ pc = "p2"
          => \A f \in FittingIds :
                is_reducer_fully_connected(f)' = is_reducer_fully_connected(f)]_vars

C28_Witness ==
    /\ pc = "done"
    /\ \E f \in FittingIds :
          /\ IsReducer(f) /\ hist.committed[<<2, f>>] = 1
          /\ hist.flipped[f] = 0
    /\ \E g \in FittingIds : hist.guarded[g] = 1 /\ is_reducer_fully_connected(g)
    /\ \E h \in FittingIds : hist.committed[<<1, h>>] = 1

\* The families the second loop takes for a Reducer.
ReducerFamilies ==
    {key \in FamilyKeys :
        /\ Contains(Lower(FamilyNameOf[key]), ReducerWord)
        /\ ~Contains(Lower(FamilyNameOf[key]), ElbowWord)}

\* Reading the connectors of fitting f, or the owner of one of their
\* references, raises.
GuardFaults(f) ==
    fits[f].mep = "fault" \/ NoOwner \in Range(Flatten(fits[f].conns))

\* C29: when reading the connectors of a live Reducer or the owner of one of
\* their references raises, the guard answers False without raising: the
\* second loop does not turn the Reducer away but applies the neutral plan,
\* and with no further fault the unit commits and is counted as updated,
\* also when the Reducer has two or more live connected owners.
C29_GuardFailsOpen ==
    \A f \in FittingIds :
        (PassTwoTurnDone(f) /\ faults = 0 /\ GuardFaults(f) /\ IsLive(f)
            /\ fits[f].family \in ReducerFamilies)
        => /\ hist.guarded[f] = 0
           /\ hist.started[<<2, f>>] = 1
           /\ hist.committed[<<2, f>>] = 1
           /\ hist.counted[<<2, f>>] = 1
           /\ updated >= 1
           /\ \A n \in {KK, KG, SW, RE} :
                 IsYesNo(hist.mid[f][n]) => params[f][n] = "int0"

C29_Witness ==
    /\ pc = "done"
    /\ faults = 0
    /\ \E f \in FittingIds :
          /\ fits[f].family = "reducer"
          /\ GuardFaults(f)
          /\ Cardinality(LiveOwners(f)) >= 2
          /\ hist.committed[<<2, f>>] = 1
          /\ hist.mid[f][RE] = "int1" /\ params[f][RE] = "int0"

\* The numbers given to the sheets created so far are pairwise distinct, none
\* of them is a number the target document already had, and a sheet whose
\* own number was free when its turn came got that number.
SheetNumbersDistinct ==
    /\ Len(assigned) = copied_sheet_count
    /\ \A i \in 1..Len(assigned) :
          /\ assigned[i].num \notin target_doc
          /\ \A j \in 1..Len(assigned) : i # j => assigned[i].num # assigned[j].num
          /\ assigned[i].free => assigned[i].num = assigned[i].src

\* C30: for every list of source sheets and every set of sheet numbers of
\* the target document, the renaming loop of copy_sheets ends for each sheet,
\* the numbers given to the created sheets are pairwise distinct and differ
\* from every number the target document had, and a sheet whose number is
\* not taken keeps it.
C30_SheetNumbersUnique ==
    /\ []SheetNumbersDistinct
    /\ (pc = "cs_while") ~> (pc = "cs_for")
    /\ <>(pc = "cs_done" /\ sheets = << >>)

C30_Witness ==
    /\ pc = "cs_done"
    /\ Len(assigned) = 2
    /\ \E i, j \in 1..Len(assigned) :
          /\ ~assigned[i].free
          /\ assigned[i].num = assigned[i].src \o CopyWord \o <<"2">>
          /\ assigned[j].free
          /\ assigned[j].num = assigned[j].src

====
